---- MODULE Spec2Model ----
(***************************************************************************)
(* Campus Portal API (src/main.py, src/schemas.py): demo login, user       *)
(* update, event CRUD and attendance tracking over a document store.       *)
(*                                                                         *)
(* Every value a document or a JSON body holds is a tagged triple          *)
(* [t, s, n]: t is the Python type, s the text of a string, n a number.    *)
(* Percentages stored as floats are counted in thousandths of a percent;   *)
(* the percentage a summary returns is counted in hundredths.              *)
(***************************************************************************)
EXTENDS Integers, Sequences, FiniteSets, TLC

VARIABLES
    db,                  \* "connected" or "none": database.db after startup
    clock,               \* the reading of datetime.utcnow()
    nextId,              \* the next ObjectId the store generates
    campususer,          \* collection db.campususer, in insertion order
    event,               \* collection db.event
    attendancerecord,    \* collection db.attendancerecord
    attendanceoverride,  \* collection db.attendanceoverride
    last,                \* the last request handled and its HTTP response
    calls                \* demo-login requests in flight (concurrent clients)

vars == <<db, clock, nextId, campususer, event, attendancerecord,
          attendanceoverride, last, calls>>

store == <<campususer, event, attendancerecord, attendanceoverride>>

\* ---------------------------------------------------------------- bounds
MaxIds == 3        \* ObjectIds the store hands out
MaxUsers == 2      \* documents in db.campususer
MaxEntries == 2
MaxCrudIds == 2    \* ObjectIds handed out where users and events are handled together    \* entries of one mark-attendance request

\* the readings datetime.utcnow() takes
Instants == {0, 1}

\* ---------------------------------------------------------------- values
Null == [t |-> "NoneType", s |-> "", n |-> 0]
Str(x) == [t |-> "str", s |-> x, n |-> 0]
IntVal(k) == [t |-> "int", s |-> "", n |-> k]
Bool(b) == [t |-> "bool", s |-> "", n |-> IF b THEN 1 ELSE 0]
Float(m) == [t |-> "float", s |-> "", n |-> m]
DateTime(k) == [t |-> "datetime", s |-> "", n |-> k]
Date(k) == [t |-> "date", s |-> "", n |-> k]
ObjectId(k) == [t |-> "ObjectId", s |-> "", n |-> k]

\* str(ObjectId): the 24 hex digits of the id
ObjectIdStr(v) == [t |-> "str", s |-> "hex24", n |-> v.n]

\* datetime.isoformat() / date.isoformat()
isoformat(v) ==
    [t |-> "str", s |-> IF v.t = "datetime" THEN "iso-datetime" ELSE "iso-date", n |-> v.n]

\* Python's None / an empty dict: both are falsy
None == [k \in {} |-> Null]
IsFalsy(d) == DOMAIN d = {}

\* ---------------------------------------------------------------- helpers
\* a serializer that sets "id" from str(doc.get("_id")) whether or not "_id" is there
serialize_id_always_sets_id(doc) ==
    IF IsFalsy(doc) THEN doc
    ELSE LET d == [k \in (DOMAIN doc \ {"_id"}) \cup {"id"} |->
                      IF k # "id" THEN doc[k]
                      ELSE IF "_id" \in DOMAIN doc THEN ObjectIdStr(doc["_id"])
                      ELSE Str("None")]
         IN  [k \in DOMAIN d |->
                 IF d[k].t \in {"datetime", "date"} THEN isoformat(d[k]) ELSE d[k]]

serialize_id(doc) ==
    IF IsFalsy(doc) THEN doc
    ELSE LET d == IF "_id" \in DOMAIN doc
                  THEN [k \in (DOMAIN doc \ {"_id"}) \cup {"id"} |->
                           IF k = "id" THEN ObjectIdStr(doc["_id"]) ELSE doc[k]]
                  ELSE doc
         IN  [k \in DOMAIN d |->
                 IF d[k].t \in {"datetime", "date"} THEN isoformat(d[k]) ELSE d[k]]

\* oid(id_str): ObjectId(id_str) parses 24 hex digits, anything else is refused
ValidId(id_str) == id_str.t = "str" /\ id_str.s = "hex24"
oid(id_str) == ObjectId(id_str.n)

\* ---------------------------------------------------------------- store
Indices(coll, k, v) == {i \in 1..Len(coll) : k \in DOMAIN coll[i] /\ coll[i][k] = v}

Min(S) == CHOOSE x \in S : \A y \in S : x <= y

\* collection.find_one({k: v}): the first match in natural order, or None
find_one(coll, k, v) ==
    IF Indices(coll, k, v) = {} THEN None ELSE coll[Min(Indices(coll, k, v))]

\* collection.update_one({"_id": id}, {"$set": updates}).matched_count
matched_count(coll, id) == IF Indices(coll, "_id", id) = {} THEN 0 ELSE 1

\* collection.update_one({"_id": id}, {"$set": updates}): only the named fields change
update_one(coll, id, updates) ==
    IF Indices(coll, "_id", id) = {} THEN coll
    ELSE [coll EXCEPT ![Min(Indices(coll, "_id", id))] = updates @@ @]

\* collection.delete_one({"_id": id}).deleted_count
deleted_count(coll, id) == IF Indices(coll, "_id", id) = {} THEN 0 ELSE 1

\* collection.delete_one({"_id": id})
delete_one(coll, id) ==
    IF Indices(coll, "_id", id) = {} THEN coll
    ELSE LET i == Min(Indices(coll, "_id", id))
         IN  SubSeq(coll, 1, i - 1) \o SubSeq(coll, i + 1, Len(coll))

\* collection.count_documents({k1: v1, k2: v2})
count_documents(coll, k1, v1, k2, v2) ==
    Cardinality(Indices(coll, k1, v1) \cap Indices(coll, k2, v2))

\* database.create_document(collection, data): the document written, with the
\* generated id and the creation and update timestamps
new_document(data, id, now) ==
    [created_at |-> DateTime(now), updated_at |-> DateTime(now)] @@ data @@ ("_id" :> ObjectId(id))

\* ---------------------------------------------------------------- responses
\* writes: how many store writes (insert, update, delete) the handler made
Response(op, status, body, writes) ==
    [op |-> op, status |-> status, body |-> body, writes |-> writes]

Detail(text) == [detail |-> Str(text)]

\* ---------------------------------------------------------------- schemas
\* CampusUser(**data).model_dump(): the declared fields only (extra keys are ignored)
CampusUser(data) == [k \in {"role", "name", "email", "mobile", "roll"} |-> data[k]]

\* Event(**data).model_dump()
Event(data) ==
    [k \in {"title", "description", "date", "location", "created_by_role"} |-> data[k]]

\* AttendanceRecord(roll=, status=, attendance_date=, marked_by_role="teacher").model_dump()
AttendanceRecord(roll, status, attendance_date) ==
    [roll |-> roll, attendance_date |-> attendance_date, status |-> status,
     marked_by_role |-> Str("teacher")]

\* AttendanceOverride: manual_percentage has ge=0, le=100 (thousandths of a percent here)
AttendanceOverrideValid(data) ==
    data.manual_percentage.n >= 0 /\ data.manual_percentage.n <= 100000

\* ---------------------------------------------------------------- inputs
DemoLoginRequests ==
    { [role |-> Str("student"), name |-> Str("Ann"), email |-> Str("a@x.io"),
       mobile |-> Str("555"), roll |-> Str("R1")],
      [role |-> Str("teacher"), name |-> Str("Bob"), email |-> Str("a@x.io"),
       mobile |-> Null, roll |-> Null],
      [role |-> Str("student"), name |-> Str("Bob"), email |-> Str("b@x.io"),
       mobile |-> Null, roll |-> Str("R2")] }

UpdateUserRequests ==
    { [name |-> Null, email |-> Null, mobile |-> Null, roll |-> Null],
      [name |-> Null, email |-> Str("a@x.io"), mobile |-> Null, roll |-> Null],
      [name |-> Str("Cy"), email |-> Null, mobile |-> Str("777"), roll |-> Null] }

\* well-formed ids, of documents that exist or not, and a malformed one
IdStrings == {ObjectIdStr(ObjectId(k)) : k \in 1..MaxIds} \cup {Str("not-an-id")}

EventCreateRequests ==
    { [title |-> Str("Fest"), description |-> Str("music"), date |-> DateTime(7),
       location |-> Str("Hall"), created_by_role |-> Str("teacher")],
      [title |-> Str("Quiz"), description |-> Null, date |-> DateTime(5),
       location |-> Null, created_by_role |-> Str("student")] }

Rolls == {Str("R1"), Str("R2")}
Statuses == {Str("present"), Str("absent")}
AttendanceMarks == [roll : Rolls, status : Statuses]
AttendanceDates == {Date(20)}

RECURSIVE SeqsUpTo(_, _)
SeqsUpTo(S, k) ==
    IF k = 0 THEN {<<>>}
    ELSE SeqsUpTo(S, k - 1) \cup
         {Append(q, x) : q \in {r \in SeqsUpTo(S, k - 1) : Len(r) = k - 1}, x \in S}

\* manual_percentage values, in thousandths of a percent: 42.125, 42.5, 150
ManualPercentages == {Float(m) : m \in {42125, 42500, 150000}}
AttendanceEntryLists == SeqsUpTo(AttendanceMarks, MaxEntries)

\* entry lists over two marks that differ in roll and in status
MarkEntryLists ==
    SeqsUpTo({[roll |-> Str("R1"), status |-> Str("present")],
              [roll |-> Str("R2"), status |-> Str("absent")]}, MaxEntries)

ManualPercentageRequests == [roll : Rolls, manual_percentage : ManualPercentages]

\* ---------------------------------------------------------------- auth
\* payload.model_dump(exclude_none=True)
exclude_none(payload) == [k \in {f \in DOMAIN payload : payload[f] # Null} |-> payload[k]]

\* a demo-login that patches an existing user with the supplied fields only
demo_login_patches_supplied_fields(payload) ==
    IF db = "none"
    THEN /\ last' = Response("demo_login", 500, Detail("Database not configured"), 0)
         /\ UNCHANGED <<db, clock, nextId, store, calls>>
    ELSE LET existing == find_one(campususer, "email", payload.email)
             data == [updated_at |-> DateTime(clock)] @@ payload
         IN  /\ IF ~IsFalsy(existing)
                THEN /\ campususer' = update_one(campususer, existing["_id"],
                                                 exclude_none(data))
                     /\ nextId' = nextId
                     /\ last' = Response("demo_login", 200,
                                   serialize_id(find_one(campususer', "_id", existing["_id"])), 1)
                ELSE /\ nextId <= MaxIds
                     /\ Len(campususer) < MaxUsers
                     /\ campususer' = Append(campususer,
                                         new_document(CampusUser(data), nextId, clock))
                     /\ nextId' = nextId + 1
                     /\ last' = Response("demo_login", 200,
                                   serialize_id(find_one(campususer', "_id", ObjectId(nextId))), 1)
             /\ UNCHANGED <<db, clock, event, attendancerecord, attendanceoverride, calls>>

demo_login(payload) ==
    IF db = "none"
    THEN /\ last' = Response("demo_login", 500, Detail("Database not configured"), 0)
         /\ UNCHANGED <<db, clock, nextId, store, calls>>
    ELSE LET existing == find_one(campususer, "email", payload.email)
             data == [updated_at |-> DateTime(clock)] @@ payload
         IN  /\ IF ~IsFalsy(existing)
                THEN /\ campususer' = update_one(campususer, existing["_id"], data)
                     /\ nextId' = nextId
                     /\ last' = Response("demo_login", 200,
                                   serialize_id(find_one(campususer', "_id", existing["_id"])), 1)
                ELSE /\ nextId <= MaxIds
                     /\ Len(campususer) < MaxUsers
                     /\ campususer' = Append(campususer,
                                         new_document(CampusUser(data), nextId, clock))
                     /\ nextId' = nextId + 1
                     /\ last' = Response("demo_login", 200,
                                   serialize_id(find_one(campususer', "_id", ObjectId(nextId))), 1)
             /\ UNCHANGED <<db, clock, event, attendancerecord, attendanceoverride, calls>>

\* ---------------------------------------------------------------- users
update_user(user_id, payload) ==
    LET updates == [updated_at |-> DateTime(clock)] @@ exclude_none(payload)
    IN  /\ UNCHANGED <<db, clock, nextId, event, attendancerecord, attendanceoverride, calls>>
        /\ IF db = "none"
           THEN /\ last' = Response("update_user", 500, Detail("Database not configured"), 0)
                /\ UNCHANGED campususer
           ELSE IF IsFalsy(exclude_none(payload))
           THEN /\ last' = Response("update_user", 200, [updated |-> Bool(FALSE)], 0)
                /\ UNCHANGED campususer
           ELSE IF ~ValidId(user_id)
           THEN /\ last' = Response("update_user", 400, Detail("Invalid ID format"), 0)
                /\ UNCHANGED campususer
           ELSE IF matched_count(campususer, oid(user_id)) = 0
           THEN /\ last' = Response("update_user", 404, Detail("User not found"), 0)
                /\ UNCHANGED campususer
           ELSE /\ campususer' = update_one(campususer, oid(user_id), updates)
                /\ last' = Response("update_user", 200,
                              serialize_id(find_one(campususer', "_id", oid(user_id))), 1)

\* ---------------------------------------------------------------- events
InternalServerError == Detail("Internal Server Error")

create_event(payload) ==
    /\ UNCHANGED <<db, clock, campususer, attendancerecord, attendanceoverride, calls>>
    /\ IF db = "none"
       THEN /\ last' = Response("create_event", 500, InternalServerError, 0)
            /\ UNCHANGED <<event, nextId>>
       ELSE /\ nextId <= MaxIds
            /\ event' = Append(event, new_document(Event(payload), nextId, clock))
            /\ nextId' = nextId + 1
            /\ last' = Response("create_event", 200,
                          serialize_id(find_one(event', "_id", ObjectId(nextId))), 1)

\* an update that passes upsert=True: an id that matches nothing creates the event
update_event_upserts(event_id, payload) ==
    /\ UNCHANGED <<db, clock, nextId, campususer, attendancerecord, attendanceoverride, calls>>
    /\ IF db = "none"
       THEN /\ last' = Response("update_event", 500, InternalServerError, 0)
            /\ UNCHANGED event
       ELSE IF ~ValidId(event_id)
       THEN /\ last' = Response("update_event", 400, Detail("Invalid ID format"), 0)
            /\ UNCHANGED event
       ELSE /\ event' = IF matched_count(event, oid(event_id)) = 0
                        THEN Append(event, payload @@ ("_id" :> oid(event_id)))
                        ELSE update_one(event, oid(event_id), payload)
            /\ last' = Response("update_event", 200,
                          serialize_id(find_one(event', "_id", oid(event_id))), 1)

update_event(event_id, payload) ==
    /\ UNCHANGED <<db, clock, nextId, campususer, attendancerecord, attendanceoverride, calls>>
    /\ IF db = "none"
       THEN /\ last' = Response("update_event", 500, InternalServerError, 0)
            /\ UNCHANGED event
       ELSE IF ~ValidId(event_id)
       THEN /\ last' = Response("update_event", 400, Detail("Invalid ID format"), 0)
            /\ UNCHANGED event
       ELSE IF matched_count(event, oid(event_id)) = 0
       THEN /\ last' = Response("update_event", 404, Detail("Event not found"), 0)
            /\ UNCHANGED event
       ELSE /\ event' = update_one(event, oid(event_id), payload)
            /\ last' = Response("update_event", 200,
                          serialize_id(find_one(event', "_id", oid(event_id))), 1)

delete_event(event_id) ==
    /\ UNCHANGED <<db, clock, nextId, campususer, attendancerecord, attendanceoverride, calls>>
    /\ IF db = "none"
       THEN /\ last' = Response("delete_event", 500, InternalServerError, 0)
            /\ UNCHANGED event
       ELSE IF ~ValidId(event_id)
       THEN /\ last' = Response("delete_event", 400, Detail("Invalid ID format"), 0)
            /\ UNCHANGED event
       ELSE IF deleted_count(event, oid(event_id)) = 0
       THEN /\ last' = Response("delete_event", 404, Detail("Event not found"), 0)
            /\ UNCHANGED event
       ELSE /\ event' = delete_one(event, oid(event_id))
            /\ last' = Response("delete_event", 200, [deleted |-> Bool(TRUE)], 1)

\* ---------------------------------------------------------------- attendance
\* mark_attendance's loop: the documents written for entries 1..k, in list order
marked_documents(date, entries, k) ==
    [i \in 1..k |->
        new_document(AttendanceRecord(entries[i].roll, entries[i].status, date),
                     nextId + i - 1, clock)]

\* a bulk insert that accepts an empty list
mark_attendance_accepts_empty(date, entries, failAt) ==
    /\ UNCHANGED <<db, clock, campususer, event, attendanceoverride, calls>>
    /\ db = "none" /\ entries # <<>> => failAt = 1
    /\ failAt <= Len(entries) + 1
    /\ nextId + failAt - 2 <= MaxIds
    /\ attendancerecord' = attendancerecord \o marked_documents(date, entries, failAt - 1)
    /\ nextId' = nextId + failAt - 1
    /\ IF failAt <= Len(entries)
       THEN last' = Response("mark_attendance", 500, InternalServerError, failAt - 1)
       ELSE last' = Response("mark_attendance", 200,
                       [inserted |-> IntVal(Len(entries)),
                        ids |-> [i \in 1..Len(entries) |->
                                    ObjectIdStr(ObjectId(nextId + i - 1))]],
                       Len(entries))

\* a bulk insert in one transaction: a failing entry leaves nothing written
mark_attendance_all_or_nothing(date, entries, failAt) ==
    /\ UNCHANGED <<db, clock, campususer, event, attendanceoverride, calls>>
    /\ IF entries = <<>>
       THEN /\ last' = Response("mark_attendance", 400, Detail("No entries to mark"), 0)
            /\ UNCHANGED <<attendancerecord, nextId>>
       ELSE /\ db = "none" => failAt = 1
            /\ nextId + failAt - 2 <= MaxIds
            /\ nextId' = nextId + failAt - 1
            /\ IF failAt <= Len(entries)
               THEN /\ attendancerecord' = attendancerecord
                    /\ last' = Response("mark_attendance", 500, InternalServerError, 0)
               ELSE /\ attendancerecord' =
                           attendancerecord \o marked_documents(date, entries, Len(entries))
                    /\ last' = Response("mark_attendance", 200,
                                  [inserted |-> IntVal(Len(entries)),
                                   ids |-> [i \in 1..Len(entries) |->
                                               ObjectIdStr(ObjectId(nextId + i - 1))]],
                                  Len(entries))

\* failAt: the entry whose insert raises (Len(entries) + 1: none does); without a
\* database every insert raises, so the first does
mark_attendance(date, entries, failAt) ==
    /\ UNCHANGED <<db, clock, campususer, event, attendanceoverride, calls>>
    /\ IF entries = <<>>
       THEN /\ last' = Response("mark_attendance", 400, Detail("No entries to mark"), 0)
            /\ UNCHANGED <<attendancerecord, nextId>>
       ELSE /\ db = "none" => failAt = 1
            /\ nextId + failAt - 2 <= MaxIds
            /\ attendancerecord' =
                   attendancerecord \o marked_documents(date, entries, failAt - 1)
            /\ nextId' = nextId + failAt - 1
            /\ IF failAt <= Len(entries)
               THEN last' = Response("mark_attendance", 500, InternalServerError, failAt - 1)
               ELSE last' = Response("mark_attendance", 200,
                               [inserted |-> IntVal(Len(entries)),
                                ids |-> [i \in 1..Len(entries) |->
                                            ObjectIdStr(ObjectId(nextId + i - 1))]],
                               Len(entries))

set_manual_percentage(payload) ==
    /\ UNCHANGED <<db, clock, campususer, event, attendancerecord, calls>>
    /\ IF db = "none"
       THEN /\ last' = Response("set_manual_percentage", 500, InternalServerError, 0)
            /\ UNCHANGED <<attendanceoverride, nextId>>
       ELSE LET existing == find_one(attendanceoverride, "roll", payload.roll)
            IN  IF ~IsFalsy(existing)
                THEN /\ attendanceoverride' =
                            update_one(attendanceoverride, existing["_id"], payload)
                     /\ nextId' = nextId
                     /\ last' = Response("set_manual_percentage", 200,
                                   serialize_id(find_one(attendanceoverride', "_id",
                                                         existing["_id"])), 1)
                ELSE IF ~AttendanceOverrideValid(payload)
                THEN /\ last' = Response("set_manual_percentage", 500, InternalServerError, 0)
                     /\ UNCHANGED <<attendanceoverride, nextId>>
                ELSE /\ nextId <= MaxIds
                     /\ attendanceoverride' =
                            Append(attendanceoverride, new_document(payload, nextId, clock))
                     /\ nextId' = nextId + 1
                     /\ last' = Response("set_manual_percentage", 200,
                                   serialize_id(find_one(attendanceoverride', "_id",
                                                         ObjectId(nextId))), 1)

\* a rounding that drops the digits after the second decimal
round2_truncates(num, den) == 10 * ((100 * num) \div den)

\* round(num / den, 2) of a percentage num / den, in thousandths of a percent:
\* Python rounds the exact value to the nearest hundredth, a tie to the even one
round2(num, den) ==
    LET q == (100 * num) \div den
        r == (100 * num) % den
    IN  10 * (IF 2 * r > den \/ (2 * r = den /\ q % 2 = 1) THEN q + 1 ELSE q)

\* a summary that takes the override only when the roll has no records
attendance_summary_prefers_records(roll) ==
    /\ UNCHANGED <<db, clock, nextId, store, calls>>
    /\ IF db = "none"
       THEN last' = Response("attendance_summary", 500, InternalServerError, 0)
       ELSE LET total_present ==
                    count_documents(attendancerecord, "roll", roll, "status", Str("present"))
                total_absent ==
                    count_documents(attendancerecord, "roll", roll, "status", Str("absent"))
                total == total_present + total_absent
                override == find_one(attendanceoverride, "roll", roll)
                percentage ==
                    IF total > 0 THEN round2(total_present * 100, total)
                    ELSE IF ~IsFalsy(override) THEN round2(override["manual_percentage"].n, 1000)
                    ELSE round2(0, 1)
            IN  last' = Response("attendance_summary", 200,
                           [roll |-> roll, presentDays |-> IntVal(total_present),
                            absentDays |-> IntVal(total_absent),
                            percentage |-> Float(percentage)], 0)

attendance_summary(roll) ==
    /\ UNCHANGED <<db, clock, nextId, store, calls>>
    /\ IF db = "none"
       THEN last' = Response("attendance_summary", 500, InternalServerError, 0)
       ELSE LET total_present ==
                    count_documents(attendancerecord, "roll", roll, "status", Str("present"))
                total_absent ==
                    count_documents(attendancerecord, "roll", roll, "status", Str("absent"))
                total == total_present + total_absent
                override == find_one(attendanceoverride, "roll", roll)
                percentage ==
                    IF ~IsFalsy(override) /\ "manual_percentage" \in DOMAIN override
                       /\ override["manual_percentage"].t \in {"int", "float"}
                    THEN round2(override["manual_percentage"].n, 1000)
                    ELSE IF total > 0 THEN round2(total_present * 100, total)
                    ELSE round2(0, 1)
            IN  last' = Response("attendance_summary", 200,
                           [roll |-> roll, presentDays |-> IntVal(total_present),
                            absentDays |-> IntVal(total_absent),
                            percentage |-> Float(percentage)], 0)

\* ---------------------------------------------------------------- concurrent demo-login
\* A demo-login request of a concurrent client runs as three store operations, each
\* atomic: the lookup by email, the update or insert, and the read-back by id.
Clients == {"c1", "c2"}

Idle == [pc |-> "idle", payload |-> None, existing |-> None, now |-> 0, user_id |-> Null]

demo_login_find(c, payload) ==
    /\ calls[c].pc = "idle"
    /\ UNCHANGED <<db, clock, nextId, store>>
    /\ IF db = "none"
       THEN /\ last' = Response("demo_login", 500, Detail("Database not configured"), 0)
            /\ UNCHANGED calls
       ELSE /\ calls' = [calls EXCEPT ![c] =
                           [pc |-> "found", payload |-> payload,
                            existing |-> find_one(campususer, "email", payload.email),
                            now |-> clock, user_id |-> Null]]
            /\ UNCHANGED last

\* a write that looks the email up again and inserts only if it is still absent
demo_login_write_upserts(c) ==
    LET call == calls[c]
        data == [updated_at |-> DateTime(call.now)] @@ call.payload
        existing == find_one(campususer, "email", call.payload.email)
    IN  /\ call.pc = "found"
        /\ UNCHANGED <<db, clock, event, attendancerecord, attendanceoverride, last>>
        /\ IF ~IsFalsy(existing)
           THEN /\ campususer' = update_one(campususer, existing["_id"], data)
                /\ nextId' = nextId
                /\ calls' = [calls EXCEPT ![c].pc = "written",
                                          ![c].user_id = existing["_id"]]
           ELSE /\ nextId <= MaxIds
                /\ Len(campususer) < MaxUsers
                /\ campususer' = Append(campususer,
                                    new_document(CampusUser(data), nextId, clock))
                /\ nextId' = nextId + 1
                /\ calls' = [calls EXCEPT ![c].pc = "written",
                                          ![c].user_id = ObjectId(nextId)]

demo_login_write(c) ==
    LET call == calls[c]
        data == [updated_at |-> DateTime(call.now)] @@ call.payload
    IN  /\ call.pc = "found"
        /\ UNCHANGED <<db, clock, event, attendancerecord, attendanceoverride, last>>
        /\ IF ~IsFalsy(call.existing)
           THEN /\ campususer' = update_one(campususer, call.existing["_id"], data)
                /\ nextId' = nextId
                /\ calls' = [calls EXCEPT ![c].pc = "written",
                                          ![c].user_id = call.existing["_id"]]
           ELSE /\ nextId <= MaxIds
                /\ Len(campususer) < MaxUsers
                /\ campususer' = Append(campususer,
                                    new_document(CampusUser(data), nextId, clock))
                /\ nextId' = nextId + 1
                /\ calls' = [calls EXCEPT ![c].pc = "written",
                                          ![c].user_id = ObjectId(nextId)]

demo_login_return(c) ==
    /\ calls[c].pc = "written"
    /\ last' = Response("demo_login", 200,
                  serialize_id(find_one(campususer, "_id", calls[c].user_id)), 1)
    /\ calls' = [calls EXCEPT ![c] = Idle]
    /\ UNCHANGED <<db, clock, nextId, store>>

\* ---------------------------------------------------------------- time
Tick ==
    /\ clock + 1 \in Instants
    /\ clock' = clock + 1
    /\ UNCHANGED <<db, nextId, store, last, calls>>

\* ---------------------------------------------------------------- specifications
Init ==
    /\ db \in {"connected", "none"}
    /\ clock = 0
    /\ nextId = 1
    /\ campususer = <<>>
    /\ event = <<>>
    /\ attendancerecord = <<>>
    /\ attendanceoverride = <<>>
    /\ last = Response("startup", 200, None, 0)
    /\ calls = [c \in Clients |-> Idle]

NextUsers ==
    \/ \E payload \in DemoLoginRequests : demo_login(payload)
    \/ \E user_id \in IdStrings, payload \in UpdateUserRequests : update_user(user_id, payload)
    \/ Tick

SpecUsers == Init /\ [][NextUsers]_vars

NextCrud ==
    /\ \/ \E payload \in DemoLoginRequests : demo_login(payload)
       \/ \E user_id \in IdStrings, payload \in UpdateUserRequests : update_user(user_id, payload)
       \/ \E payload \in EventCreateRequests : create_event(payload)
       \/ \E event_id \in IdStrings, payload \in EventCreateRequests : update_event(event_id, payload)
       \/ \E event_id \in IdStrings : delete_event(event_id)
       \/ Tick
    /\ nextId' <= MaxCrudIds + 1

SpecCrud == Init /\ [][NextCrud]_vars

\* The attendance handlers do not read the clock; the timestamps create_document
\* writes are all taken at one reading here.
NextAttendance ==
    \/ \E date \in AttendanceDates, entries \in AttendanceEntryLists :
          \E failAt \in 1..(Len(entries) + 1) : mark_attendance(date, entries, failAt)
    \/ \E payload \in ManualPercentageRequests : set_manual_percentage(payload)
    \/ \E roll \in Rolls : attendance_summary(roll)

SpecAttendance == Init /\ [][NextAttendance]_vars

NextConcurrent ==
    \/ \E c \in Clients, payload \in DemoLoginRequests : demo_login_find(c, payload)
    \/ \E c \in Clients : demo_login_write(c)
    \/ \E c \in Clients : demo_login_return(c)
    \/ Tick

SpecConcurrent == Init /\ [][NextConcurrent]_vars

NextMark ==
    \/ \E date \in AttendanceDates, entries \in MarkEntryLists :
          \E failAt \in 1..(Len(entries) + 1) : mark_attendance(date, entries, failAt)
    \/ Tick

SpecMark == Init /\ [][NextMark]_vars

\* ---------------------------------------------------------------- properties
WithEmail(coll, email) == Indices(coll, "email", email)

UserFields == {"role", "name", "email", "mobile", "roll"}

\* C1: a demo-login for an email that has no record leaves exactly one record with that
\* email, and a second demo-login for the same email, run right after it, leaves
\* exactly one record with that email whose role, name, email, mobile and roll are
\* those of the second payload (an omitted optional field is null in the record).
C1_SecondLoginReplacesFields ==
    [][\A p \in DemoLoginRequests :
          (/\ db = "connected"
           /\ Cardinality(WithEmail(campususer, p.email)) <= 1
           /\ WithEmail(campususer, p.email) # {} =>
                 (last.op = "demo_login" /\ last.status = 200
                  /\ last.body["email"] = p.email)
           /\ demo_login(p))
          => /\ Cardinality(WithEmail(campususer', p.email)) = 1
             /\ \A k \in UserFields : find_one(campususer', "email", p.email)[k] = p[k]
             /\ last'.status = 200]_vars

\* C1 witness: a demo-login has just updated a record created earlier, and the record's
\* mobile and roll are null as in its payload.
C1_Witness ==
    /\ last.op = "demo_login" /\ last.status = 200
    /\ \E i \in 1..Len(campususer) :
          /\ serialize_id(campususer[i]) = last.body
          /\ campususer[i]["created_at"] # campususer[i]["updated_at"]
          /\ campususer[i]["mobile"] = Null /\ campususer[i]["roll"] = Null
          /\ Cardinality(WithEmail(campususer, campususer[i]["email"])) = 1

\* C2: after any sequence of demo-login and update-user requests run one after the
\* other, the user collection holds at most one record per email.
C2_OneRecordPerEmail ==
    \A i, j \in 1..Len(campususer) :
        campususer[i]["email"] = campususer[j]["email"] => i = j

\* C3: every persisted AttendanceOverride has 0 <= manual_percentage <= 100.
C3_OverridesInRange ==
    \A i \in 1..Len(attendanceoverride) :
        /\ attendanceoverride[i]["manual_percentage"].n >= 0
        /\ attendanceoverride[i]["manual_percentage"].n <= 100000

PresentDays(roll) ==
    Cardinality({i \in 1..Len(attendancerecord) :
                    /\ attendancerecord[i]["roll"] = roll
                    /\ attendancerecord[i]["status"] = Str("present")})

AbsentDays(roll) ==
    Cardinality({i \in 1..Len(attendancerecord) :
                    /\ attendancerecord[i]["roll"] = roll
                    /\ attendancerecord[i]["status"] = Str("absent")})

HasOverride(roll) == \E i \in 1..Len(attendanceoverride) : attendanceoverride[i]["roll"] = roll

OverrideOf(roll) ==
    (CHOOSE d \in {attendanceoverride[i] : i \in 1..Len(attendanceoverride)} :
        d["roll"] = roll)["manual_percentage"].n

Summarized == last.op = "attendance_summary" /\ last.status = 200

\* C4 as stated: for a roll with a stored override v, the summary returns percentage
\* equal to v unchanged, and presentDays and absentDays are the actual record counts.
C4_SummaryReturnsOverrideUnchanged ==
    (Summarized /\ HasOverride(last.body.roll)) =>
        /\ last.body.percentage.n = OverrideOf(last.body.roll)
        /\ last.body.presentDays = IntVal(PresentDays(last.body.roll))
        /\ last.body.absentDays = IntVal(AbsentDays(last.body.roll))

\* C4 as amended: for a roll with a stored override v, the summary returns percentage
\* equal to v rounded to two decimals (the hundredth nearest to v, v itself when v has
\* at most two decimals) whatever records exist, and presentDays and absentDays are the
\* actual record counts.
C4_SummaryReturnsRoundedOverride ==
    (Summarized /\ HasOverride(last.body.roll)) =>
        LET v == OverrideOf(last.body.roll)
            pct == last.body.percentage.n
        IN  /\ pct % 10 = 0
            /\ pct - v <= 5 /\ v - pct <= 5
            /\ v % 10 = 0 => pct = v
            /\ last.body.presentDays = IntVal(PresentDays(last.body.roll))
            /\ last.body.absentDays = IntVal(AbsentDays(last.body.roll))

\* C4 witness: a summary of a roll that has records and the override 42.125 returned 42.12.
C4_Witness ==
    /\ Summarized /\ HasOverride(last.body.roll)
    /\ OverrideOf(last.body.roll) = 42125
    /\ last.body.percentage.n = 42120
    /\ PresentDays(last.body.roll) > 0 /\ AbsentDays(last.body.roll) > 0

\* C5: for a roll with no override, P present and A absent records, the summary returns
\* presentDays = P, absentDays = A and percentage = round(P/(P+A)*100, 2) (the hundredth
\* nearest to the quotient) when P+A > 0, and 0 when P+A = 0; records of other rolls do
\* not count.
C5_SummaryComputesPercentage ==
    (Summarized /\ ~HasOverride(last.body.roll)) =>
        LET P == PresentDays(last.body.roll)
            A == AbsentDays(last.body.roll)
            pct == last.body.percentage.n
        IN  /\ last.body.presentDays = IntVal(P)
            /\ last.body.absentDays = IntVal(A)
            /\ last.body.percentage.t = "float"
            /\ P + A = 0 => pct = 0
            /\ P + A > 0 =>
                  /\ pct % 10 = 0
                  /\ pct * (P + A) - 100000 * P <= 5 * (P + A)
                  /\ 100000 * P - pct * (P + A) <= 5 * (P + A)

\* C5 witness: a summary of a roll with one present and two absent records and no
\* override returned 33.33.
C5_Witness ==
    /\ Summarized /\ ~HasOverride(last.body.roll)
    /\ PresentDays(last.body.roll) = 1 /\ AbsentDays(last.body.roll) = 2
    /\ last.body.percentage.n = 33330

InsertedUnseen(c) ==
    calls[c].pc = "written" /\ IsFalsy(calls[c].existing)

\* C6: when two concurrent demo-logins for the same email both found no record and both
\* made their write, the user collection holds two records with that email.
C6_ConcurrentLoginsDuplicate ==
    \A c1, c2 \in Clients :
        (/\ c1 # c2
         /\ InsertedUnseen(c1) /\ InsertedUnseen(c2)
         /\ calls[c1].payload.email = calls[c2].payload.email)
        => Cardinality(WithEmail(campususer, calls[c1].payload.email)) >= 2

\* C6 witness: two concurrent demo-logins for one email both found no record, both
\* inserted, and the collection holds two records with that email.
C6_Witness ==
    \E c1, c2 \in Clients :
        /\ c1 # c2
        /\ InsertedUnseen(c1) /\ InsertedUnseen(c2)
        /\ calls[c1].payload.email = calls[c2].payload.email
        /\ Cardinality(WithEmail(campususer, calls[c1].payload.email)) = 2

Unmatched(coll, id_str) == ValidId(id_str) /\ Indices(coll, "_id", oid(id_str)) = {}

\* C7: update-event, delete-event and update-user (with a non-empty field subset), called
\* on a connected store with a well-formed id that matches no record, end in 404 and
\* leave every collection as it was: a step that does not end in 404 with the store
\* unchanged is none of these calls.
C7_NotFoundWritesNothing ==
    [][db = "connected" =>
         \/ last'.status = 404 /\ UNCHANGED store
         \/ /\ last'.op = "update_event" =>
                  \A id \in IdStrings, p \in EventCreateRequests :
                     ~(Unmatched(event, id) /\ update_event(id, p))
            /\ last'.op = "delete_event" =>
                  \A id \in IdStrings :
                     ~(Unmatched(event, id) /\ delete_event(id))
            /\ last'.op = "update_user" =>
                  \A id \in IdStrings, p \in UpdateUserRequests :
                     ~(/\ Unmatched(campususer, id)
                       /\ ~IsFalsy(exclude_none(p))
                       /\ update_user(id, p))]_vars

\* C7 witness: an update-event ended in 404 on a store that holds users and events.
C7_Witness ==
    /\ last.op = "update_event" /\ last.status = 404 /\ last.writes = 0
    /\ event # <<>> /\ campususer # <<>>

\* C8: mark-attendance with an empty list ends in 400 and inserts nothing; with n >= 1
\* entries whose inserts all succeed it appends exactly n records, one per entry in
\* order with the entry's roll and status and the request's date, and returns
\* inserted = n with the n ids.
C8_MarkInsertsOnePerEntry ==
    [][\A date \in AttendanceDates, entries \in MarkEntryLists :
          mark_attendance(date, entries, Len(entries) + 1)
          => IF entries = <<>>
             THEN last'.status = 400 /\ UNCHANGED store
             ELSE /\ Len(attendancerecord') = Len(attendancerecord) + Len(entries)
                  /\ SubSeq(attendancerecord', 1, Len(attendancerecord)) = attendancerecord
                  /\ last'.status = 200
                  /\ last'.body.inserted = IntVal(Len(entries))
                  /\ Len(last'.body.ids) = Len(entries)
                  /\ \A i \in 1..Len(entries) :
                        LET doc == attendancerecord'[Len(attendancerecord) + i]
                        IN  /\ doc["roll"] = entries[i].roll
                            /\ doc["status"] = entries[i].status
                            /\ doc["attendance_date"] = date
                            /\ last'.body.ids[i] = ObjectIdStr(doc["_id"])]_vars

\* C8 witness: a mark-attendance with two entries returned inserted = 2.
C8_Witness ==
    /\ last.op = "mark_attendance" /\ last.status = 200
    /\ last.body.inserted = IntVal(2)
    /\ Len(attendancerecord) >= 2

StoredDocs ==
    {campususer[i] : i \in 1..Len(campususer)} \cup {event[i] : i \in 1..Len(event)}
    \cup {attendancerecord[i] : i \in 1..Len(attendancerecord)}
    \cup {attendanceoverride[i] : i \in 1..Len(attendanceoverride)}

\* C9: serialize_id applied to its own output gives that output again, for every stored
\* document.
C9_SerializeIdempotent ==
    \A d \in StoredDocs : serialize_id(serialize_id(d)) = serialize_id(d)

\* C9 witness: a stored document with a store id, a date and a date-time, which
\* serialize_id changes.
C9_Witness ==
    \E d \in StoredDocs :
        /\ "_id" \in DOMAIN d
        /\ \E k \in DOMAIN d : d[k].t = "date"
        /\ \E k \in DOMAIN d : d[k].t = "datetime"
        /\ serialize_id(d) # d

\* C10: when the insert of entry K of a mark-attendance fails, the records of entries
\* 1..K-1 are persisted, in order, none is persisted for entries K..n, and the request
\* ends in an error and not in an {inserted, ids} result.
C10_FailedMarkKeepsEarlierEntries ==
    [][\A date \in AttendanceDates, entries \in MarkEntryLists :
          \A failAt \in 1..Len(entries) :
             mark_attendance(date, entries, failAt)
             => /\ Len(attendancerecord') = Len(attendancerecord) + failAt - 1
                /\ SubSeq(attendancerecord', 1, Len(attendancerecord)) = attendancerecord
                /\ \A i \in 1..(failAt - 1) :
                      LET doc == attendancerecord'[Len(attendancerecord) + i]
                      IN  /\ doc["roll"] = entries[i].roll
                          /\ doc["status"] = entries[i].status
                          /\ doc["attendance_date"] = date
                /\ last'.status = 500
                /\ "inserted" \notin DOMAIN last'.body]_vars

\* C10 witness: a mark-attendance failed after it had written one record.
C10_Witness ==
    /\ last.op = "mark_attendance" /\ last.status = 500 /\ last.writes = 1
    /\ db = "connected"
    /\ attendancerecord # <<>>

====
